---- MODULE Spec2Model ----
(***************************************************************************)
(* Battle Mode of the Priority Matrix (src/src/js/battle.js): the pairwise *)
(* tournament over a list of tasks, its final ranking, and the single      *)
(* localStorage slot 'priority-matrix-battle-results' with its 7 day       *)
(* expiry; and the Task and Matrix classes (src/src/js/task.js,            *)
(* src/src/js/matrix.js): the tasks of the matrix, their quadrant, their   *)
(* update, and the order sortTasksByPriority gives them.                   *)
(*                                                                         *)
(* Conventions.  Task ids are the integers 1..n, an id of 0 is an id that  *)
(* no task has.  Sequences are 1-based, so the pair at the 0-based cursor  *)
(* currentPairIndex is pairs[currentPairIndex + 1].  Time is counted in    *)
(* whole days; a session starts on day oneWeek, and the slot may then hold *)
(* what a session of day 0 left in it.  The timestamp stored with each     *)
(* recorded outcome (battle.js:76) is read by no operation and is left     *)
(* out.  A Task object is identified by its id; of a task the model keeps  *)
(* name, importance, urgency, quadrant, created and updated, and leaves    *)
(* out description and completed, which no operation modelled here reads.  *)
(* Scores of getPriorityScore are counted in tenths.  Error messages that  *)
(* end in a variable part are modelled by their fixed beginning.           *)
(***************************************************************************)
EXTENDS Integers, Sequences, FiniteSets, TLC

\* ---------------------------------------------------------------- bounds
\* largest task list a tournament is constructed over
MaxTasks == 3
\* the last day of the clock
MaxNow == 8
\* constructions plus resets in one behaviour
MaxRuns == 2
\* longest list handed to validateTasks
MaxListLen == 21
\* calls of addTask, updateTask, moveTaskToQuadrant and importData in one
\* behaviour
MaxEdits == 1

\* ------------------------------------------------------ program constants
\* battle.js:250, 7 * 24 * 60 * 60 * 1000 ms, in days
oneWeek == 7
\* battle.js:288
MinBattleTasks == 2
\* battle.js:292
MaxBattleTasks == 20
\* task.js:38 and 47, the legacy numeric value from which a trait is set
LegacyThreshold == 4
\* task.js:242, the cap of the age bonus, in tenths
MaxAgeBonus == 20

VARIABLES
  exists,            \* a BattleMode instance has been constructed
  tasks,             \* this.tasks: the ids of the snapshot, in order
  pairs,             \* this.pairs: [taskA, taskB, completed]
  currentPairIndex,  \* this.currentPairIndex (0-based)
  scores,            \* this.scores: id -> [wins, losses, comparisons, score]
  comparisons,       \* this.comparisons: key -> [winner, loser]
  isComplete,        \* this.isComplete
  battleScore,       \* task.battleScore of every Task object
  store,             \* the localStorage slot
  now,               \* Date.now(), in days
  runs,              \* constructions and resets so far
  op,                \* the operation called last
  err,               \* the message of the error the last call threw, "" if none
  ret,               \* what the last call returned
  wrote,             \* the last call called localStorage.setItem
  removed,           \* the last call called localStorage.removeItem
  matrix,            \* Matrix.tasks: the Task objects in insertion order
  orphaned,          \* ids of the tournament whose Task object the matrix no longer holds
  saved,             \* the last call called saveToStorage
  emitted,           \* the event the last call emitted, "" if none
  edits              \* calls that edit the matrix so far

vars == <<exists, tasks, pairs, currentPairIndex, scores, comparisons,
          isComplete, battleScore, store, now, runs, op, err, ret, wrote, removed,
          matrix, orphaned, saved, emitted, edits>>

battleVars == <<exists, tasks, pairs, currentPairIndex, scores, comparisons,
                isComplete>>

matrixVars == <<matrix, orphaned, edits>>

TaskIds == 1..MaxTasks
\* ids a caller may pass: every task id and 0, the id of no task
AnyIds == 0..MaxTasks

Null == [kind |-> "null"]

\* ------------------------------------------------------------ the store
Absent == [kind |-> "absent", rankings |-> <<>>, timestamp |-> 0, taskIds |-> <<>>]
\* content that JSON.parse rejects
Unparseable == [kind |-> "unparseable", rankings |-> <<>>, timestamp |-> 0, taskIds |-> <<>>]

\* Math.round(num / den) for num >= 0, den > 0: halves round up
MathRound(num, den) == (2 * num + den) \div (2 * den)

\* ---------------------------------------------------------- construction
\* new Map()
NoComparisons == [k \in {} |-> Null]

ZeroScore == [wins |-> 0, losses |-> 0, comparisons |-> 0, score |-> 0]

initializeScores(ts) ==
  [id \in {ts[i] : i \in 1..Len(ts)} |-> ZeroScore]

\* the pairs (i, j), i < j, in the order of the double loop
RECURSIVE PairsFrom(_, _, _)
PairsFrom(ts, i, j) ==
  IF i > Len(ts) THEN <<>>
  ELSE IF j > Len(ts) THEN PairsFrom(ts, i + 1, i + 2)
  ELSE <<[taskA |-> ts[i], taskB |-> ts[j], completed |-> FALSE]>>
         \o PairsFrom(ts, i, j + 1)

\* the choices of Math.random: for every position i >= 2 an index 1..i
ShuffleChoices(len) == {js \in [2..len -> 1..len] : \A i \in 2..len : js[i] <= i}

\* the swap written as a plain assignment: pairs[i] = pairs[j]
SwapOverwrite(p, i, j) == [p EXCEPT ![i] = p[j]]

\* [this.pairs[i], this.pairs[j]] = [this.pairs[j], this.pairs[i]]
Swap(p, i, j) == [p EXCEPT ![i] = p[j], ![j] = p[i]]

\* Fisher-Yates from position i down to 2
RECURSIVE shuffleFrom(_, _, _)
shuffleFrom(p, i, js) ==
  IF i < 2 THEN p ELSE shuffleFrom(Swap(p, i, js[i]), i - 1, js)

shufflePairs(p, js) == shuffleFrom(p, Len(p), js)

generatePairs(ts, js) == shufflePairs(PairsFrom(ts, 1, 2), js)

NumPairs(n) == (n * (n - 1)) \div 2

TaskList(n) == [i \in 1..n |-> i]

\* the loser's tally without its comparisons++
updateScoresLoserUncounted(sc, winnerTaskId, loserTaskId) ==
  LET afterWinner ==
        IF winnerTaskId \in DOMAIN sc
        THEN [sc EXCEPT ![winnerTaskId].wins = @ + 1,
                        ![winnerTaskId].comparisons = @ + 1]
        ELSE sc
  IN IF loserTaskId \in DOMAIN afterWinner
     THEN [afterWinner EXCEPT ![loserTaskId].losses = @ + 1]
     ELSE afterWinner

updateScores(sc, winnerTaskId, loserTaskId) ==
  LET afterWinner ==
        IF winnerTaskId \in DOMAIN sc
        THEN [sc EXCEPT ![winnerTaskId].wins = @ + 1,
                        ![winnerTaskId].comparisons = @ + 1]
        ELSE sc
  IN IF loserTaskId \in DOMAIN afterWinner
     THEN [afterWinner EXCEPT ![loserTaskId].losses = @ + 1,
                              ![loserTaskId].comparisons = @ + 1]
     ELSE afterWinner

\* ------------------------------------------------------------- rankings
\* [taskId1, taskId2].sort().join('vs')
getComparisonKey(a, b) == IF a <= b THEN <<a, b>> ELSE <<b, a>>

\* the win rate alone, without the bonus for absolute wins
FinalScoreWithoutBonus(s) ==
  IF s.comparisons > 0 THEN MathRound(100 * s.wins, s.comparisons) ELSE 0

\* Math.round((winRate * 100) + bonusPoints), 0 without comparisons
FinalScore(s) ==
  IF s.comparisons > 0
  THEN MathRound(100 * s.wins + (s.wins * 2) * s.comparisons, s.comparisons)
  ELSE 0

calculateFinalRankings(sc) == [id \in DOMAIN sc |-> [sc[id] EXCEPT !.score = FinalScore(sc[id])]]

RankingEntry(id, sc) ==
  [task |-> id,
   score |-> sc[id].score,
   wins |-> sc[id].wins,
   losses |-> sc[id].losses,
   winRate |-> IF sc[id].comparisons > 0
               THEN MathRound(100 * sc[id].wins, sc[id].comparisons) ELSE 0]

RECURSIVE InsertByScore(_, _), InsertByScoreAscending(_, _)
\* the comparator the wrong way round: a.score - b.score
InsertByScoreAscending(e, s) ==
  IF s = <<>> THEN <<e>>
  ELSE IF Head(s).score <= e.score THEN <<Head(s)>> \o InsertByScoreAscending(e, Tail(s))
  ELSE <<e>> \o s

\* Array.prototype.sort with (a, b) => b.score - a.score: stable, descending
InsertByScore(e, s) ==
  IF s = <<>> THEN <<e>>
  ELSE IF Head(s).score >= e.score THEN <<Head(s)>> \o InsertByScore(e, Tail(s))
  ELSE <<e>> \o s

RECURSIVE SortByScore(_)
SortByScore(s) ==
  IF s = <<>> THEN <<>>
  ELSE InsertByScore(s[Len(s)], SortByScore(SubSeq(s, 1, Len(s) - 1)))

getRankings(ts, sc) == SortByScore([i \in 1..Len(ts) |-> RankingEntry(ts[i], sc)])

\* the results with the rankings in task order, without the sort
BattleResultsUnsorted(ts, sc, t) ==
  [kind |-> "results",
   rankings |-> [i \in 1..Len(ts) |->
                  [RankingEntry(ts[i], sc) EXCEPT !.task = [id |-> ts[i]]]],
   timestamp |-> t,
   taskIds |-> ts]

\* JSON.stringify of the results: every ranking's task becomes its toJSON()
BattleResultsJSON(ts, sc, t) ==
  [kind |-> "results",
   rankings |-> [i \in 1..Len(ts) |->
                  [getRankings(ts, sc)[i] EXCEPT !.task = [id |-> getRankings(ts, sc)[i].task]]],
   timestamp |-> t,
   taskIds |-> ts]

\* what a tournament over tasks 1 and 2, won by 1 on day 0, left in the slot
LeftoverResults ==
  BattleResultsJSON(TaskList(2),
                    calculateFinalRankings(updateScores(initializeScores(TaskList(2)), 1, 2)),
                    0)

Init ==
  /\ exists = FALSE
  /\ tasks = <<>>
  /\ pairs = <<>>
  /\ currentPairIndex = 0
  /\ scores = initializeScores(<<>>)
  /\ comparisons = NoComparisons
  /\ isComplete = FALSE
  /\ battleScore = [id \in TaskIds |-> 0]
  /\ store \in {Absent, Unparseable, LeftoverResults}
  /\ now = oneWeek
  /\ runs = 0
  /\ op = "none"
  /\ err = ""
  /\ ret = Null
  /\ wrote = FALSE
  /\ removed = FALSE
  /\ matrix = <<>>
  /\ orphaned = {}
  /\ saved = FALSE
  /\ emitted = ""
  /\ edits = 0

\* the call name returns value
Return(name, value) ==
  /\ op' = name
  /\ err' = ""
  /\ ret' = value

\* the call touched the slot neither with setItem nor with removeItem
NoStoreCall ==
  /\ wrote' = FALSE
  /\ removed' = FALSE

\* the call is no call of the matrix: it neither saves nor emits, and the
\* tasks of the matrix stay as they are
NoMatrixCall ==
  /\ saved' = FALSE
  /\ emitted' = ""
  /\ UNCHANGED matrixVars

\* new BattleMode(tasks)
NewBattle(n, js) ==
  /\ runs < MaxRuns
  /\ exists' = TRUE
  /\ tasks' = TaskList(n)
  /\ comparisons' = NoComparisons
  /\ currentPairIndex' = 0
  /\ isComplete' = FALSE
  /\ scores' = initializeScores(TaskList(n))
  /\ pairs' = generatePairs(TaskList(n), js)
  /\ runs' = runs + 1
  /\ Return("new", Null)
  /\ NoStoreCall
  /\ NoMatrixCall
  /\ UNCHANGED <<battleScore, store, now>>

\* ------------------------------------------------------ recordComparison
\* a cursor that wraps around instead of running off the end
getCurrentPairWrapping(ps, idx) ==
  IF Len(ps) = 0 THEN Null ELSE ps[(idx % Len(ps)) + 1]

\* this.getCurrentPair(): the pair at the cursor, Null past the end
getCurrentPair(ps, idx) == IF idx >= Len(ps) THEN Null ELSE ps[idx + 1]

\* the check without its winnerTaskId === loserTaskId part
ValidComparisonLoose(pair, winnerTaskId, loserTaskId) ==
  /\ winnerTaskId = pair.taskA \/ winnerTaskId = pair.taskB
  /\ loserTaskId = pair.taskA \/ loserTaskId = pair.taskB

\* battle.js:64-67, the negation of the condition that throws
ValidComparison(pair, winnerTaskId, loserTaskId) ==
  LET validWinner == winnerTaskId = pair.taskA \/ winnerTaskId = pair.taskB
      validLoser == loserTaskId = pair.taskA \/ loserTaskId = pair.taskB
  IN validWinner /\ validLoser /\ winnerTaskId # loserTaskId

\* the completion test one pair too early
BattleOverEarly(idx, ps) == idx >= Len(ps) - 1

\* this.currentPairIndex >= this.pairs.length, tested after the increment
BattleOver(idx, ps) == idx >= Len(ps)

\* the assignment of score.score to every task of the tournament; the
\* objects assigned to are the ones the matrix holds unless importData or
\* addTask has replaced them since the tournament was constructed (gone)
UpdateBattleScores(bs, sc, gone) ==
  [id \in DOMAIN bs |->
     IF id \in DOMAIN sc /\ id \notin gone THEN sc[id].score ELSE bs[id]]

\* a failed write that takes the previous content of the slot with it
saveBattleResultsClearing(complete, slot, ts, sc, t, writeOk) ==
  IF ~complete THEN slot
  ELSE IF writeOk THEN BattleResultsJSON(ts, sc, t)
  ELSE Absent

\* localStorage.setItem inside the try of saveBattleResults: a write that
\* throws (quota exceeded) is caught and leaves the slot as it was
saveBattleResults(complete, slot, ts, sc, t, writeOk) ==
  IF ~complete THEN slot
  ELSE IF writeOk THEN BattleResultsJSON(ts, sc, t)
  ELSE slot

ComparisonResult(done, idx, ps) ==
  [kind |-> "comparison", isComplete |-> done, current |-> idx,
   total |-> Len(ps), currentPair |-> getCurrentPair(ps, idx)]

Throw(name, message) ==
  /\ op' = name
  /\ err' = message
  /\ ret' = Null
  /\ NoStoreCall

recordComparison(winnerTaskId, loserTaskId, writeOk) ==
  /\ exists
  /\ LET pair == getCurrentPair(pairs, currentPairIndex) IN
     IF pair = Null
     THEN /\ Throw("recordComparison", "No active comparison")
          /\ NoMatrixCall
          /\ UNCHANGED <<battleVars, battleScore, store, now, runs>>
     ELSE IF ~ValidComparison(pair, winnerTaskId, loserTaskId)
     THEN /\ Throw("recordComparison", "Invalid comparison result")
          /\ NoMatrixCall
          /\ UNCHANGED <<battleVars, battleScore, store, now, runs>>
     ELSE
       LET key == getComparisonKey(pair.taskA, pair.taskB)
           tallied == updateScores(scores, winnerTaskId, loserTaskId)
           idx == currentPairIndex + 1
           ps == [pairs EXCEPT ![currentPairIndex + 1].completed = TRUE]
           done == BattleOver(idx, pairs)
           final == IF done THEN calculateFinalRankings(tallied) ELSE tallied
       IN /\ comparisons' = [k \in DOMAIN comparisons \cup {key} |->
                              IF k = key
                              THEN [winner |-> winnerTaskId, loser |-> loserTaskId]
                              ELSE comparisons[k]]
          /\ scores' = final
          /\ pairs' = ps
          /\ currentPairIndex' = idx
          /\ isComplete' = (isComplete \/ done)
          /\ battleScore' = IF done
                            THEN UpdateBattleScores(battleScore, final, orphaned)
                            ELSE battleScore
          /\ store' = IF done
                      THEN saveBattleResults(isComplete \/ done, store, tasks, final, now, writeOk)
                      ELSE store
          /\ wrote' = done
          /\ removed' = FALSE
          /\ Return("recordComparison", ComparisonResult(isComplete \/ done, idx, ps))
          /\ NoMatrixCall
          /\ UNCHANGED <<exists, tasks, now, runs>>

\* whether setItem succeeds, for the one call that reaches it
WriteOutcomes == IF currentPairIndex + 1 = Len(pairs) THEN BOOLEAN ELSE {TRUE}

\* a reset that leaves the tallies of the run before
resetKeepingScores(js) ==
  /\ exists
  /\ runs < MaxRuns
  /\ comparisons' = NoComparisons
  /\ currentPairIndex' = 0
  /\ isComplete' = FALSE
  /\ scores' = scores
  /\ pairs' = generatePairs(tasks, js)
  /\ runs' = runs + 1
  /\ Return("reset", Null)
  /\ NoStoreCall
  /\ NoMatrixCall
  /\ UNCHANGED <<exists, tasks, battleScore, store, now>>

\* a reset that also removes the ranking record
resetClearingResults(js) ==
  /\ exists
  /\ runs < MaxRuns
  /\ comparisons' = NoComparisons
  /\ currentPairIndex' = 0
  /\ isComplete' = FALSE
  /\ scores' = initializeScores(tasks)
  /\ pairs' = generatePairs(tasks, js)
  /\ runs' = runs + 1
  /\ Return("reset", Null)
  /\ store' = Absent
  /\ wrote' = FALSE
  /\ removed' = TRUE
  /\ NoMatrixCall
  /\ UNCHANGED <<exists, tasks, battleScore, now>>

\* reset()
reset(js) ==
  /\ exists
  /\ runs < MaxRuns
  /\ comparisons' = NoComparisons
  /\ currentPairIndex' = 0
  /\ isComplete' = FALSE
  /\ scores' = initializeScores(tasks)
  /\ pairs' = generatePairs(tasks, js)
  /\ runs' = runs + 1
  /\ Return("reset", Null)
  /\ NoStoreCall
  /\ NoMatrixCall
  /\ UNCHANGED <<exists, tasks, battleScore, store, now>>

\* ------------------------------------------------------- read operations
\* getTheOne(): the first ranking of a complete tournament
getTheOne(complete, ts, sc) ==
  IF ~complete THEN Null
  ELSE IF Len(getRankings(ts, sc)) > 0
  THEN [kind |-> "ranking", entry |-> getRankings(ts, sc)[1]]
  ELSE Null

\* Array.prototype.slice(start, end) for 0 <= start <= end
Slice(s, start, end) ==
  SubSeq(s, start + 1, IF end < Len(s) THEN end ELSE Len(s))

\* a slice that does not skip the first ranking: slice(0, count)
getUpNextFromTheOne(complete, ts, sc, count) ==
  IF ~complete THEN <<>> ELSE Slice(getRankings(ts, sc), 0, count)

\* getUpNext(count), for a count of 0 or more
getUpNext(complete, ts, sc, count) ==
  IF ~complete THEN <<>> ELSE Slice(getRankings(ts, sc), 1, count + 1)

\* getProgress()
getProgress(idx, ps) ==
  [current |-> idx,
   total |-> Len(ps),
   percentage |-> IF Len(ps) > 0 THEN MathRound(100 * idx, Len(ps)) ELSE 0,
   remaining |-> Len(ps) - idx]

\* getStatistics()
getStatistics(ts, ps, idx, complete) ==
  [totalTasks |-> Len(ts),
   totalPairs |-> Len(ps),
   completedComparisons |-> idx,
   remainingComparisons |-> Len(ps) - idx,
   isComplete |-> complete,
   progress |-> getProgress(idx, ps)]

hasComparison(cmp, taskId1, taskId2) ==
  getComparisonKey(taskId1, taskId2) \in DOMAIN cmp

\* getComparison(): Map.get gives undefined for a key the map has not
getComparison(cmp, taskId1, taskId2) ==
  IF hasComparison(cmp, taskId1, taskId2)
  THEN [kind |-> "outcome", outcome |-> cmp[getComparisonKey(taskId1, taskId2)]]
  ELSE [kind |-> "undefined"]

\* a call that assigns to nothing and touches no storage
Read(name, value) ==
  /\ exists
  /\ Return(name, value)
  /\ NoStoreCall
  /\ NoMatrixCall
  /\ UNCHANGED <<battleVars, battleScore, store, now, runs>>

GetCurrentPair ==
  Read("getCurrentPair",
       IF getCurrentPair(pairs, currentPairIndex) = Null THEN Null
       ELSE [kind |-> "pair", pair |-> getCurrentPair(pairs, currentPairIndex)])

\* a getRankings() that computes the final scores of the tallies so far
GetRankingsScoring ==
  /\ exists
  /\ scores' = calculateFinalRankings(scores)
  /\ Return("getRankings",
            [kind |-> "rankings", list |-> getRankings(tasks, calculateFinalRankings(scores))])
  /\ NoStoreCall
  /\ NoMatrixCall
  /\ UNCHANGED <<exists, tasks, pairs, currentPairIndex, comparisons, isComplete,
                 battleScore, store, now, runs>>

GetRankings ==
  Read("getRankings", [kind |-> "rankings", list |-> getRankings(tasks, scores)])

GetTheOne == Read("getTheOne", getTheOne(isComplete, tasks, scores))

GetUpNext(count) ==
  Read("getUpNext",
       [kind |-> "upNext", count |-> count,
        list |-> getUpNext(isComplete, tasks, scores, count)])

GetProgress ==
  Read("getProgress", [kind |-> "progress", value |-> getProgress(currentPairIndex, pairs)])

GetStatistics ==
  Read("getStatistics",
       [kind |-> "statistics",
        value |-> getStatistics(tasks, pairs, currentPairIndex, isComplete)])

HasComparison(taskId1, taskId2) ==
  Read("hasComparison",
       [kind |-> "boolean", value |-> hasComparison(comparisons, taskId1, taskId2)])

GetComparison(taskId1, taskId2) ==
  Read("getComparison", getComparison(comparisons, taskId1, taskId2))

\* --------------------------------------------------------- ranking store
\* the expiry test off by a day
ExpiredLate(results, t) == t - results.timestamp > oneWeek + 1

\* Date.now() - results.timestamp > oneWeek
Expired(results, t) == t - results.timestamp > oneWeek

\* the load that also removes what JSON.parse rejects
loadBattleResultsClearing(slot, t) ==
  IF slot.kind = "absent" THEN <<Null, slot, FALSE>>
  ELSE IF slot.kind = "unparseable" THEN <<Null, Absent, TRUE>>
  ELSE IF Expired(slot, t) THEN <<Null, Absent, TRUE>>
  ELSE <<slot, slot, FALSE>>

\* static loadBattleResults(): <<what it returns, the slot afterwards,
\* whether it called removeItem>>.  JSON.parse throws on unparseable content
\* and the catch returns null; JSON.parse of a results record gives back the
\* record.
loadBattleResults(slot, t) ==
  IF slot.kind = "absent" THEN <<Null, slot, FALSE>>
  ELSE IF slot.kind = "unparseable" THEN <<Null, slot, FALSE>>
  ELSE IF Expired(slot, t) THEN <<Null, Absent, TRUE>>
  ELSE <<slot, slot, FALSE>>

LoadBattleResults ==
  /\ Return("loadBattleResults", loadBattleResults(store, now)[1])
  /\ store' = loadBattleResults(store, now)[2]
  /\ removed' = loadBattleResults(store, now)[3]
  /\ wrote' = FALSE
  /\ NoMatrixCall
  /\ UNCHANGED <<battleVars, battleScore, now, runs>>

\* static clearBattleResults()
ClearBattleResults ==
  /\ store' = Absent
  /\ Return("clearBattleResults", Null)
  /\ wrote' = FALSE
  /\ removed' = TRUE
  /\ NoMatrixCall
  /\ UNCHANGED <<battleVars, battleScore, now, runs>>

\* a day passes
Tick ==
  /\ now < MaxNow
  /\ now' = now + 1
  /\ Return("tick", Null)
  /\ NoStoreCall
  /\ NoMatrixCall
  /\ UNCHANGED <<battleVars, battleScore, store, runs>>

\* ---------------------------------------------------------- validateTasks
\* an argument that is no array
NotArray == [isArray |-> FALSE, items |-> <<>>]
\* the array of the tasks with the ids list
Array(list) == [isArray |-> TRUE, items |-> list]

\* the lists handed to validateTasks: an element is the id of a task, 0 for
\* a task without id
ValidateInputs ==
  {NotArray} \cup {Array(TaskList(n)) : n \in 0..MaxListLen}
             \cup {Array(list) : list \in [1..2 -> 0..2] \cup [1..3 -> 0..2]}

\* the loop over the tasks: the first task without id or with an id seen
\* before decides
RECURSIVE CheckIds(_, _, _)
CheckIds(list, i, ids) ==
  IF i > Len(list) THEN ""
  ELSE IF list[i] = 0 THEN "All tasks must have an ID"
  ELSE IF list[i] \in ids THEN "Duplicate task IDs found"
  ELSE CheckIds(list, i + 1, ids \cup {list[i]})

\* the upper limit off by one
validateTasksLaxMaximum(input) ==
  IF ~input.isArray THEN "Tasks must be an array"
  ELSE IF Len(input.items) < MinBattleTasks
  THEN "At least 2 tasks are required for battle mode"
  ELSE IF Len(input.items) > MaxBattleTasks + 1
  THEN "Maximum 20 tasks allowed in battle mode"
  ELSE CheckIds(input.items, 1, {})

\* static validateTasks(tasks): the message of the error it throws, "" when
\* it returns true
validateTasks(input) ==
  IF ~input.isArray THEN "Tasks must be an array"
  ELSE IF Len(input.items) < MinBattleTasks
  THEN "At least 2 tasks are required for battle mode"
  ELSE IF Len(input.items) > MaxBattleTasks
  THEN "Maximum 20 tasks allowed in battle mode"
  ELSE CheckIds(input.items, 1, {})

True == [kind |-> "true"]

ValidateTasks(input) ==
  /\ op' = "validateTasks"
  /\ err' = validateTasks(input)
  /\ ret' = IF validateTasks(input) = "" THEN True ELSE Null
  /\ NoStoreCall
  /\ NoMatrixCall
  /\ UNCHANGED <<battleVars, battleScore, store, now, runs>>


\* ------------------------------------------------------------------ Task
\* a value of importance or urgency as JavaScript holds it
Bool(b) == [type |-> "boolean", value |-> IF b THEN 1 ELSE 0]
Num(n) == [type |-> "number", value |-> n]
Undefined == [type |-> "undefined", value |-> 0]

\* the truthiness of a trait value: false, 0 and undefined are falsy
Truthy(v) == v.value # 0

\* a date a task data object does not carry
NoDate == -1

\* the data a task is constructed from; quadrant 0 and battleScore 0 are
\* what '||' takes for absent
TaskData(id, name, importance, urgency, quadrant, created, score) ==
  [id |-> id, name |-> name, importance |-> importance, urgency |-> urgency,
   quadrant |-> quadrant, created |-> created, updated |-> created,
   battleScore |-> score]

\* task.js:34-50: a boolean is kept, a number is important or urgent from 4
\* on, anything else is false
TraitOf(v) ==
  IF v.type = "boolean" THEN v
  ELSE IF v.type = "number" THEN Bool(v.value >= LegacyThreshold)
  ELSE Bool(FALSE)

\* the quadrant of the traits by their truthiness
calculateQuadrant(importance, urgency) ==
  IF Truthy(importance) /\ Truthy(urgency) THEN 1
  ELSE IF Truthy(importance) /\ ~Truthy(urgency) THEN 2
  ELSE IF ~Truthy(importance) /\ Truthy(urgency) THEN 3
  ELSE 4

\* new Task(data) on day t; battleScore is kept in the variable battleScore
Task(data, t) ==
  [id |-> data.id,
   name |-> data.name,
   importance |-> TraitOf(data.importance),
   urgency |-> TraitOf(data.urgency),
   quadrant |-> IF data.quadrant # 0 THEN data.quadrant
                ELSE calculateQuadrant(TraitOf(data.importance), TraitOf(data.urgency)),
   created |-> IF data.created = NoDate THEN t ELSE data.created,
   updated |-> IF data.updated = NoDate THEN t ELSE data.updated]

\* the data of an update: keys are the own keys of the object
UpdateData(keys, name, importance, urgency, quadrant, score) ==
  [keys |-> keys, name |-> name, importance |-> importance, urgency |-> urgency,
   quadrant |-> quadrant, battleScore |-> score]

\* update(data) on day t: every key of data that the task has, except id and
\* created, is assigned; then updated is set and the quadrant recomputed
\* (which undoes an assignment to either)
update(task, data, t) ==
  LET assigned ==
        [task EXCEPT
           !.name = IF "name" \in data.keys THEN data.name ELSE @,
           !.importance = IF "importance" \in data.keys THEN data.importance ELSE @,
           !.urgency = IF "urgency" \in data.keys THEN data.urgency ELSE @,
           !.quadrant = IF "quadrant" \in data.keys THEN data.quadrant ELSE @]
  IN [assigned EXCEPT
        !.updated = t,
        !.quadrant = calculateQuadrant(assigned.importance, assigned.urgency)]

\* the assignment of data.battleScore whether or not data has the key
updateBattleScoreAlways(bs, id, data) == [bs EXCEPT ![id] = data.battleScore]

\* the battleScore part of update(data): battleScore is a key the task has
updateBattleScore(bs, id, data) ==
  IF "battleScore" \in data.keys THEN [bs EXCEPT ![id] = data.battleScore] ELSE bs

\* validate(): the errors, in order.  The names of the model are "" and names
\* of at most 100 characters.
validate(task) ==
  (IF task.name = "" THEN <<"Task name is required">> ELSE <<>>)
  \o (IF task.importance.type # "boolean"
      THEN <<"Importance must be a boolean value">> ELSE <<>>)
  \o (IF task.urgency.type # "boolean"
      THEN <<"Urgency must be a boolean value">> ELSE <<>>)

\* getAgeInDays() on day t
getAgeInDays(task, t) ==
  IF t >= task.created THEN t - task.created ELSE task.created - t

\* getPriorityScore() on day t, in tenths: importance * 2 + urgency, the age
\* bonus min(age * 0.1, 2), and the battle score
getPriorityScore(task, bs, t) ==
  10 * ((task.importance.value * 2) + task.urgency.value)
  + (IF getAgeInDays(task, t) < MaxAgeBonus THEN getAgeInDays(task, t) ELSE MaxAgeBonus)
  + 10 * bs[task.id]

\* ---------------------------------------------------------------- Matrix
HasTask(m, id) == \E i \in 1..Len(m) : m[i].id = id
IndexOf(m, id) == CHOOSE i \in 1..Len(m) : m[i].id = id
IdsIn(m) == {m[i].id : i \in 1..Len(m)}

\* this.tasks.set(task.id, task): a known key keeps its place in the order
MapSet(m, task) ==
  IF HasTask(m, task.id) THEN [m EXCEPT ![IndexOf(m, task.id)] = task]
  ELSE Append(m, task)

\* the forEach over task data of importData and loadFromStorage
RECURSIVE fromJSONAll(_, _, _, _)
fromJSONAll(m, datas, i, t) ==
  IF i > Len(datas) THEN m
  ELSE fromJSONAll(MapSet(m, Task(datas[i], t)), datas, i + 1, t)

\* the battleScore of the Task objects constructed from datas
RECURSIVE battleScoresFrom(_, _, _)
battleScoresFrom(bs, datas, i) ==
  IF i > Len(datas) THEN bs
  ELSE battleScoresFrom([bs EXCEPT ![datas[i].id] = datas[i].battleScore], datas, i + 1)

\* what localStorage holds under 'priority-matrix-data', and what importData
\* is handed
NoData == [kind |-> "absent", tasks |-> <<>>]
Data(datas) == [kind |-> "data", tasks |-> datas]

\* loadFromStorage() on day t: nothing is loaded from an empty slot
loadFromStorage(stored, t) ==
  IF stored.kind = "data" THEN fromJSONAll(<<>>, stored.tasks, 1, t) ELSE <<>>

getAllTasks(m) == m

getTasksByQuadrant(m, quadrant) == SelectSeq(m, LAMBDA task : task.quadrant = quadrant)

\* the outcome of a call of the matrix
Outcome(message, m, bs, didSave, event) ==
  [err |-> message, matrix |-> m, battleScore |-> bs, saved |-> didSave,
   emitted |-> event]

\* addTask(taskData) on day t; id is what generateId() gives when the data
\* has no id (id 0).  A task of the same id is replaced in its place.
addTask(m, bs, data, id, t) ==
  LET task == Task([data EXCEPT !.id = IF @ = 0 THEN id ELSE @], t) IN
  IF validate(task) # <<>> THEN Outcome("Invalid task", m, bs, FALSE, "")
  ELSE Outcome("", MapSet(m, task), [bs EXCEPT ![task.id] = data.battleScore],
               TRUE, "taskAdded")

\* updateTask(taskId, updateData) on day t: the task is updated, and then
\* validated
updateTask(m, bs, taskId, updateData, t) ==
  IF ~HasTask(m, taskId) THEN Outcome("Task not found", m, bs, FALSE, "")
  ELSE LET i == IndexOf(m, taskId)
           task == update(m[i], updateData, t)
           after == [m EXCEPT ![i] = task]
           scored == updateBattleScore(bs, taskId, updateData)
       IN IF validate(task) # <<>>
          THEN Outcome("Invalid task update", after, scored, FALSE, "")
          ELSE Outcome("", after, scored, TRUE, "taskUpdated")

\* matrix.js:325-330
quadrantMap ==
  [q \in 1..4 |->
     [importance |-> IF q \in {1, 2} THEN Num(5) ELSE Num(2),
      urgency |-> IF q \in {1, 3} THEN Num(5) ELSE Num(2)]]

\* moveTaskToQuadrant(taskId, targetQuadrant) on day t
moveTaskToQuadrant(m, bs, taskId, targetQuadrant, t) ==
  IF ~HasTask(m, taskId) THEN Outcome("Task not found", m, bs, FALSE, "")
  ELSE IF targetQuadrant \in DOMAIN quadrantMap
  THEN updateTask(m, bs, taskId,
                  UpdateData({"importance", "urgency", "quadrant"}, "",
                             quadrantMap[targetQuadrant].importance,
                             quadrantMap[targetQuadrant].urgency,
                             targetQuadrant, 0),
                  t)
  ELSE Outcome("", m, bs, FALSE, "")

\* importData(data) on day t
importData(m, bs, data, t) ==
  IF data.kind # "data" THEN Outcome("Invalid data format", m, bs, FALSE, "")
  ELSE Outcome("", fromJSONAll(<<>>, data.tasks, 1, t),
               battleScoresFrom(bs, data.tasks, 1), TRUE, "dataImported")

\* ----------------------------------------------------- sortTasksByPriority
\* parseable content of the ranking slot that is no ranking record: an
\* object without rankings field, one whose rankings is no array (it has no
\* forEach), and one with a rankings entry that has no task
NoRankings ==
  [kind |-> "noRankings", rankings |-> <<>>, timestamp |-> oneWeek, taskIds |-> <<>>]
RankingsNotArray ==
  [kind |-> "rankingsNotArray", rankings |-> <<>>, timestamp |-> oneWeek, taskIds |-> <<>>]
EntryWithoutTask ==
  [kind |-> "entryWithoutTask", rankings |-> <<>>, timestamp |-> oneWeek, taskIds |-> <<>>]

\* loadBattleResults() when localStorage.getItem may throw: the catch
\* returns null
loadBattleResultsReading(slot, t, readOk) ==
  IF readOk THEN loadBattleResults(slot, t) ELSE <<Null, slot, FALSE>>

RECURSIVE InsertByPriorityAscending(_, _, _, _)
\* the comparator the wrong way round
InsertByPriorityAscending(e, s, bs, t) ==
  IF s = <<>> THEN <<e>>
  ELSE IF getPriorityScore(Head(s), bs, t) - getPriorityScore(e, bs, t) <= 0
  THEN <<Head(s)>> \o InsertByPriorityAscending(e, Tail(s), bs, t)
  ELSE <<e>> \o s

RECURSIVE InsertByPriority(_, _, _, _)
\* sort with (a, b) => b.getPriorityScore() - a.getPriorityScore(): e, which
\* came after the tasks of s, goes before the first one it compares less than
InsertByPriority(e, s, bs, t) ==
  IF s = <<>> THEN <<e>>
  ELSE IF getPriorityScore(e, bs, t) - getPriorityScore(Head(s), bs, t) <= 0
  THEN <<Head(s)>> \o InsertByPriority(e, Tail(s), bs, t)
  ELSE <<e>> \o s

RECURSIVE SortByPriorityScore(_, _, _)
SortByPriorityScore(items, bs, t) ==
  IF items = <<>> THEN <<>>
  ELSE InsertByPriority(items[Len(items)],
                        SortByPriorityScore(SubSeq(items, 1, Len(items) - 1), bs, t),
                        bs, t)

\* the map with the positions counted from the end of the rankings
battleRankingMapFromEnd(rankings) ==
  [id \in {rankings[k].task.id : k \in 1..Len(rankings)} |->
     LET last == CHOOSE k \in 1..Len(rankings) :
                   /\ rankings[k].task.id = id
                   /\ \A j \in 1..Len(rankings) : rankings[j].task.id = id => j <= k
     IN [score |-> rankings[last].score, position |-> Len(rankings) - last]]

\* battleRankingMap: task id -> position (0-based); a later entry of the
\* same id replaces an earlier one
battleRankingMap(rankings) ==
  [id \in {rankings[k].task.id : k \in 1..Len(rankings)} |->
     LET last == CHOOSE k \in 1..Len(rankings) :
                   /\ rankings[k].task.id = id
                   /\ \A j \in 1..Len(rankings) : rankings[j].task.id = id => j <= k
     IN [score |-> rankings[last].score, position |-> last - 1]]

\* the comparator that lets an unranked task go first
CompareWithBattleUnrankedFirst(a, b, map, bs, t) ==
  IF a.id \in DOMAIN map /\ b.id \in DOMAIN map
  THEN map[a.id].position - map[b.id].position
  ELSE IF a.id \in DOMAIN map /\ b.id \notin DOMAIN map THEN 1
  ELSE IF a.id \notin DOMAIN map /\ b.id \in DOMAIN map THEN -1
  ELSE getPriorityScore(b, bs, t) - getPriorityScore(a, bs, t)

\* the comparator that orders the unranked tasks by ascending score
CompareWithBattleUnrankedAscending(a, b, map, bs, t) ==
  IF a.id \in DOMAIN map /\ b.id \in DOMAIN map
  THEN map[a.id].position - map[b.id].position
  ELSE IF a.id \in DOMAIN map /\ b.id \notin DOMAIN map THEN -1
  ELSE IF a.id \notin DOMAIN map /\ b.id \in DOMAIN map THEN 1
  ELSE getPriorityScore(a, bs, t) - getPriorityScore(b, bs, t)

\* the comparator of matrix.js:269-284
CompareWithBattle(a, b, map, bs, t) ==
  IF a.id \in DOMAIN map /\ b.id \in DOMAIN map
  THEN map[a.id].position - map[b.id].position
  ELSE IF a.id \in DOMAIN map /\ b.id \notin DOMAIN map THEN -1
  ELSE IF a.id \notin DOMAIN map /\ b.id \in DOMAIN map THEN 1
  ELSE getPriorityScore(b, bs, t) - getPriorityScore(a, bs, t)

RECURSIVE InsertWithBattle(_, _, _, _, _)
InsertWithBattle(e, s, map, bs, t) ==
  IF s = <<>> THEN <<e>>
  ELSE IF CompareWithBattle(Head(s), e, map, bs, t) <= 0
  THEN <<Head(s)>> \o InsertWithBattle(e, Tail(s), map, bs, t)
  ELSE <<e>> \o s

RECURSIVE SortWithBattle(_, _, _, _)
SortWithBattle(items, map, bs, t) ==
  IF items = <<>> THEN <<>>
  ELSE InsertWithBattle(items[Len(items)],
                        SortWithBattle(SubSeq(items, 1, Len(items) - 1), map, bs, t),
                        map, bs, t)

\* what a sort gives: the error it throws ("" if none), the sorted tasks,
\* the ranking slot afterwards, whether removeItem was called
Sorted(message, items, slot, didRemove) ==
  [err |-> message, sorted |-> items, slot |-> slot, removed |-> didRemove]

\* sortTasksWithBattleResults(tasks) on day t.  rankings.forEach of a value
\* that is no array, and ranking.task.id of an entry without task, throw a
\* TypeError that nothing catches.
sortTasksWithBattleResults(items, slot, t, readOk, bs) ==
  LET loaded == loadBattleResultsReading(slot, t, readOk)
      battleResults == loaded[1]
  IN IF battleResults = Null \/ battleResults.kind = "noRankings"
     THEN Sorted("", SortByPriorityScore(items, bs, t), loaded[2], loaded[3])
     ELSE IF battleResults.kind \in {"rankingsNotArray", "entryWithoutTask"}
     THEN Sorted("TypeError", <<>>, loaded[2], loaded[3])
     ELSE Sorted("", SortWithBattle(items, battleRankingMap(battleResults.rankings), bs, t),
                 loaded[2], loaded[3])

\* the sort that uses the ranking record in every quadrant
sortTasksByPriorityAnyQuadrant(items, quadrant, slot, t, readOk, bs) ==
  sortTasksWithBattleResults(items, slot, t, readOk, bs)

\* sortTasksByPriority(tasks, quadrant) on day t; quadrant 0 is null
sortTasksByPriority(items, quadrant, slot, t, readOk, bs) ==
  IF quadrant = 1 THEN sortTasksWithBattleResults(items, slot, t, readOk, bs)
  ELSE Sorted("", SortByPriorityScore(items, bs, t), slot, FALSE)

\* ------------------------------------------------- the calls of the matrix
IdList(items) == [k \in 1..Len(items) |-> items[k].id]

\* the tasks a caller hands to the sort: all of them (0), or a quadrant's
Selection(m, sel) == IF sel = 0 THEN getAllTasks(m) ELSE getTasksByQuadrant(m, sel)

SortTasksByPriority(sel, q, readOk) ==
  LET items == Selection(matrix, sel)
      out == sortTasksByPriority(items, q, store, now, readOk, battleScore)
  IN /\ op' = "sortTasksByPriority"
     /\ err' = out.err
     /\ ret' = IF out.err = ""
               THEN [kind |-> "sorted", quadrant |-> q, items |-> IdList(items),
                     ids |-> IdList(out.sorted)]
               ELSE Null
     /\ store' = out.slot
     /\ removed' = out.removed
     /\ wrote' = FALSE
     /\ saved' = FALSE
     /\ emitted' = ""
     /\ UNCHANGED <<battleVars, battleScore, now, runs, matrixVars>>

\* a call of the matrix that edits it, with the outcome out
Edit(name, out, value) ==
  /\ edits < MaxEdits
  /\ op' = name
  /\ err' = out.err
  /\ ret' = IF out.err = "" THEN value ELSE Null
  /\ matrix' = out.matrix
  /\ battleScore' = out.battleScore
  /\ saved' = out.saved
  /\ emitted' = out.emitted
  /\ edits' = edits + 1
  /\ NoStoreCall
  /\ UNCHANGED <<battleVars, store, now, runs>>

TaskResult(id) == [kind |-> "task", id |-> id]

\* the ids generateId() can still give: the ids that no task of the matrix
\* or of the tournament has and that the ranking record does not hold
FreshIds ==
  TaskIds \ (IdsIn(matrix) \cup {tasks[i] : i \in 1..Len(tasks)}
             \cup {store.rankings[k].task.id : k \in 1..Len(store.rankings)})

\* generateId()
FreshId == CHOOSE id \in FreshIds : \A other \in FreshIds : id <= other

\* addTask(data): a task that replaces one of the tournament is a new object
AddTask(data) ==
  LET out == addTask(matrix, battleScore, data, FreshId, now)
      id == IF data.id = 0 THEN FreshId ELSE data.id
  IN /\ (data.id = 0 => FreshIds # {})
     /\ Edit("addTask", out, TaskResult(id))
     /\ orphaned' = IF out.err = "" /\ HasTask(matrix, id)
                    THEN orphaned \cup ({id} \cap {tasks[i] : i \in 1..Len(tasks)})
                    ELSE orphaned

UpdateTask(taskId, updateData) ==
  /\ Edit("updateTask", updateTask(matrix, battleScore, taskId, updateData, now),
          TaskResult(taskId))
  /\ UNCHANGED orphaned

MoveTaskToQuadrant(taskId, targetQuadrant) ==
  /\ Edit("moveTaskToQuadrant",
          moveTaskToQuadrant(matrix, battleScore, taskId, targetQuadrant, now),
          [kind |-> "moved", id |-> taskId,
           oldQuadrant |-> IF HasTask(matrix, taskId)
                           THEN matrix[IndexOf(matrix, taskId)].quadrant ELSE 0,
           newQuadrant |-> targetQuadrant])
  /\ UNCHANGED orphaned

\* importData(data): the Task objects of the matrix are new ones, so that a
\* tournament constructed before holds objects the matrix no longer has
ImportData(data) ==
  /\ Edit("importData", importData(matrix, battleScore, data, now), True)
  /\ orphaned' = IF data.kind = "data"
                 THEN orphaned \cup {tasks[i] : i \in 1..Len(tasks)}
                 ELSE orphaned

\* app.js:264-273: a tournament over the tasks of quadrant 1, when there are
\* at least two
startBattleMode(js) ==
  LET urgentImportantTasks == IdList(getTasksByQuadrant(matrix, 1)) IN
  /\ runs < MaxRuns
  /\ Len(urgentImportantTasks) >= MinBattleTasks
  /\ exists' = TRUE
  /\ tasks' = urgentImportantTasks
  /\ comparisons' = NoComparisons
  /\ currentPairIndex' = 0
  /\ isComplete' = FALSE
  /\ scores' = initializeScores(urgentImportantTasks)
  /\ pairs' = generatePairs(urgentImportantTasks, js)
  /\ runs' = runs + 1
  /\ orphaned' = {}
  /\ Return("startBattleMode", Null)
  /\ NoStoreCall
  /\ saved' = FALSE
  /\ emitted' = ""
  /\ UNCHANGED <<battleScore, store, now, matrix, edits>>

\* ------------------------------------------------------------ the inputs
NoName == ""
SomeName == "task"

\* a task of quadrant 1 as toJSON() stores it
StoredQ1(id, created, score) ==
  TaskData(id, SomeName, Bool(TRUE), Bool(TRUE), 1, created, score)

\* the data handed to addTask: the form of app.js:150-155, one without
\* name, and one that carries the id 1 and a battle score
AddInputs ==
  {TaskData(0, SomeName, Bool(i), Bool(u), 0, NoDate, 0) : i \in BOOLEAN, u \in BOOLEAN}
  \cup {TaskData(0, NoName, Bool(TRUE), Bool(TRUE), 0, NoDate, 0),
        TaskData(1, SomeName, Bool(TRUE), Bool(TRUE), 0, NoDate, 5)}

UpdateInputs ==
  {UpdateData({"name"}, NoName, Undefined, Undefined, 0, 0),
   UpdateData({"name", "importance"}, NoName, Bool(FALSE), Undefined, 0, 0),
   UpdateData({"name", "battleScore"}, NoName, Undefined, Undefined, 0, 5),
   UpdateData({"importance"}, NoName, Bool(FALSE), Undefined, 0, 0),
   UpdateData({"urgency"}, NoName, Undefined, Bool(FALSE), 0, 0),
   UpdateData({"quadrant"}, NoName, Undefined, Undefined, 3, 0),
   UpdateData({"battleScore"}, NoName, Undefined, Undefined, 0, 5)}

\* the target quadrants handed to moveTaskToQuadrant: 5 is none
MoveTargets == 1..5

\* the data handed to importData: none, an export of two tasks of quadrant 1,
\* a task whose quadrant field is not the one of its traits, a task with
\* legacy numeric traits and a quadrant field that is no quadrant
ImportInputs ==
  {NoData,
   Data(<<StoredQ1(1, 0, 0), StoredQ1(2, 0, 5)>>),
   Data(<<TaskData(1, SomeName, Bool(FALSE), Bool(FALSE), 1, NoDate, 0)>>),
   Data(<<TaskData(2, SomeName, Num(5), Num(3), 7, NoDate, 0)>>)}

\* what the matrix finds in its storage when it is constructed
MatrixStoredData ==
  {NoData,
   Data(<<StoredQ1(1, oneWeek, 0), StoredQ1(2, 0, 0)>>),
   Data(<<StoredQ1(1, oneWeek, 0), StoredQ1(2, oneWeek, 0),
          TaskData(3, SomeName, Bool(TRUE), Bool(FALSE), 2, oneWeek, 0)>>)}

\* the tasks of the sort specification: a task is of quadrant 1, created on
\* day 0 or on day oneWeek, with battle score 0 or 5, or it is of quadrant 3
SortTaskData(id) ==
  {StoredQ1(id, 0, 0), StoredQ1(id, oneWeek, 0), StoredQ1(id, oneWeek, 5),
   TaskData(id, SomeName, Bool(FALSE), Bool(TRUE), 3, 0, 0)}

\* the stored lists of n tasks with the ids 1..n, ascending or descending
SortStoredData ==
  {Data(datas) : datas \in UNION {
     {list \in [1..n -> UNION {SortTaskData(id) : id \in 1..n}] :
        \/ \A i \in 1..n : list[i].id = i
        \/ \A i \in 1..n : list[i].id = n + 1 - i} : n \in 0..MaxTasks}}

\* the id of a task that was deleted after its tournament
DeletedId == MaxTasks + 1

\* the record of a tournament of day oneWeek over task 2 and a task deleted
\* since, which 2 won
PartialResults ==
  BattleResultsJSON(<<2, DeletedId>>,
    calculateFinalRankings(updateScores(initializeScores(<<2, DeletedId>>), 2, DeletedId)),
    oneWeek)

SlotContents ==
  {Absent, Unparseable, LeftoverResults, PartialResults, NoRankings,
   RankingsNotArray, EntryWithoutTask}

NoTournament ==
  /\ exists = FALSE
  /\ tasks = <<>>
  /\ pairs = <<>>
  /\ currentPairIndex = 0
  /\ scores = initializeScores(<<>>)
  /\ comparisons = NoComparisons
  /\ isComplete = FALSE

NoCall ==
  /\ runs = 0
  /\ op = "none"
  /\ err = ""
  /\ ret = Null
  /\ wrote = FALSE
  /\ removed = FALSE
  /\ orphaned = {}
  /\ saved = FALSE
  /\ emitted = ""
  /\ edits = 0

\* new Matrix() on day oneWeek, with the tasks its storage holds
MatrixLoaded(stored) ==
  /\ matrix = loadFromStorage(stored, oneWeek)
  /\ battleScore = battleScoresFrom([id \in TaskIds |-> 0], stored.tasks, 1)


Next ==
  \/ \E n \in 0..MaxTasks : \E js \in ShuffleChoices(NumPairs(n)) : NewBattle(n, js)
  \/ \E w \in AnyIds, l \in AnyIds, writeOk \in WriteOutcomes : recordComparison(w, l, writeOk)
  \/ \E js \in ShuffleChoices(Len(pairs)) : reset(js)
  \/ LoadBattleResults
  \/ ClearBattleResults
  \/ Tick

Spec == Init /\ [][Next]_vars

\* construction and validation alone
NextValidate ==
  \/ \E n \in 0..MaxTasks : \E js \in ShuffleChoices(NumPairs(n)) : NewBattle(n, js)
  \/ \E input \in ValidateInputs : ValidateTasks(input)

SpecValidate == Init /\ [][NextValidate]_vars

\* a tournament and its read operations, with an empty ranking slot
InitRead == Init /\ store = Absent

\* the counts handed to getUpNext
UpNextCounts == 0..MaxTasks

NextRead ==
  \/ \E n \in 0..MaxTasks : \E js \in ShuffleChoices(NumPairs(n)) : NewBattle(n, js)
  \/ \E w \in AnyIds, l \in AnyIds, writeOk \in WriteOutcomes : recordComparison(w, l, writeOk)
  \/ \E js \in ShuffleChoices(Len(pairs)) : reset(js)
  \/ GetCurrentPair
  \/ GetRankings
  \/ GetTheOne
  \/ \E count \in UpNextCounts : GetUpNext(count)
  \/ GetProgress
  \/ GetStatistics
  \/ \E taskId1 \in TaskIds, taskId2 \in TaskIds : HasComparison(taskId1, taskId2)
  \/ \E taskId1 \in TaskIds, taskId2 \in TaskIds : GetComparison(taskId1, taskId2)

SpecRead == InitRead /\ [][NextRead]_vars

\* the matrix and its ordering, with no tournament
InitSort ==
  /\ NoTournament
  /\ NoCall
  /\ now = oneWeek
  /\ store \in SlotContents
  /\ \E stored \in SortStoredData : MatrixLoaded(stored)

SortSelections == {0, 1}
SortQuadrants == {0, 1, 2}
ReadOutcomes(q) == IF q = 1 THEN BOOLEAN ELSE {TRUE}

NextSort ==
  \/ \E sel \in SortSelections, q \in SortQuadrants :
       \E readOk \in ReadOutcomes(q) : SortTasksByPriority(sel, q, readOk)
  \/ \E data \in AddInputs : AddTask(data)
  \/ Tick

SpecSort == InitSort /\ [][NextSort]_vars

\* the matrix, its edits, and tournaments over its tasks of quadrant 1
InitMatrix ==
  /\ NoTournament
  /\ NoCall
  /\ now = oneWeek
  /\ store = Absent
  /\ \E stored \in MatrixStoredData : MatrixLoaded(stored)

NextMatrix ==
  \/ \E data \in AddInputs : AddTask(data)
  \/ \E taskId \in AnyIds, updateData \in UpdateInputs : UpdateTask(taskId, updateData)
  \/ \E taskId \in AnyIds, targetQuadrant \in MoveTargets :
       MoveTaskToQuadrant(taskId, targetQuadrant)
  \/ \E data \in ImportInputs : ImportData(data)
  \/ \E js \in ShuffleChoices(NumPairs(Len(getTasksByQuadrant(matrix, 1)))) :
       startBattleMode(js)
  \/ \E w \in AnyIds, l \in AnyIds, writeOk \in WriteOutcomes : recordComparison(w, l, writeOk)
  \/ \E js \in ShuffleChoices(Len(pairs)) : reset(js)
  \/ \E q \in {0, 2} : SortTasksByPriority(0, q, TRUE)

SpecMatrix == InitMatrix /\ [][NextMatrix]_vars

\* the matrix, tournaments over its tasks of quadrant 1, the ranking slot
\* and the order of quadrant 1
InitTheOne ==
  /\ NoTournament
  /\ NoCall
  /\ now = oneWeek
  /\ store \in {Absent, LeftoverResults}
  /\ \E stored \in MatrixStoredData : MatrixLoaded(stored)

NextTheOne ==
  \/ \E js \in ShuffleChoices(NumPairs(Len(getTasksByQuadrant(matrix, 1)))) :
       startBattleMode(js)
  \/ \E w \in AnyIds, l \in AnyIds, writeOk \in WriteOutcomes : recordComparison(w, l, writeOk)
  \/ \E js \in ShuffleChoices(Len(pairs)) : reset(js)
  \/ LoadBattleResults
  \/ ClearBattleResults
  \/ \E sel \in SortSelections : SortTasksByPriority(sel, 1, TRUE)
  \/ \E data \in AddInputs : AddTask(data)
  \/ Tick

SpecTheOne == InitTheOne /\ [][NextTheOne]_vars

\* ================================================================ claims
IdsOf(ts) == {ts[i] : i \in 1..Len(ts)}
PairIds(pair) == {pair.taskA, pair.taskB}
\* the positions of the pair sequence that hold the unordered pair {a, b}
PositionsOf(ps, a, b) == {k \in 1..Len(ps) : PairIds(ps[k]) = {a, b}}
\* the state of the tournament a rejected call must leave alone
tournamentState == <<tasks, pairs, currentPairIndex, scores, comparisons, isComplete>>

\* C1: a tournament over n items with distinct ids has n*(n-1)/2 pairs, every
\* unordered pair of distinct items is in the sequence exactly once and no
\* item is paired with itself, after construction and after reset().
C1_AllPairsOnce ==
  exists =>
    /\ Len(pairs) = (Len(tasks) * (Len(tasks) - 1)) \div 2
    /\ \A k \in 1..Len(pairs) :
         /\ pairs[k].taskA # pairs[k].taskB
         /\ PairIds(pairs[k]) \subseteq IdsOf(tasks)
    /\ \A a \in IdsOf(tasks), b \in IdsOf(tasks) :
         a # b => Cardinality(PositionsOf(pairs, a, b)) = 1

\* C1 after reset(): three items, in an order the double loop did not produce
C1_Witness ==
  /\ op = "reset"
  /\ Len(tasks) = 3
  /\ pairs # PairsFrom(tasks, 1, 2)

\* C2: with N = n*(n-1)/2 pairs, n >= 2, every successful recordComparison
\* moves the cursor by one and a rejected one leaves it; isComplete is true
\* after a call exactly if the cursor has reached N, and isComplete turns
\* from false to true in no other step than the N-th successful call.
C2_CompleteAtLastPair ==
  [][ /\ (op' = "recordComparison" /\ Len(tasks) >= 2) =>
           /\ err' = "" => currentPairIndex' = currentPairIndex + 1
           /\ err' # "" => /\ currentPairIndex' = currentPairIndex
                           /\ isComplete' = isComplete
           /\ isComplete' <=> (currentPairIndex' = NumPairs(Len(tasks)))
      /\ (~isComplete /\ isComplete') =>
           /\ op' = "recordComparison"
           /\ err' = ""
           /\ currentPairIndex' = NumPairs(Len(tasks))
    ]_vars

\* C2: the third successful call of a tournament over three items completed it
C2_Witness ==
  /\ op = "recordComparison"
  /\ err = ""
  /\ Len(tasks) = 3
  /\ currentPairIndex = 3
  /\ isComplete

\* C3: while a current pair exists, recordComparison with winnerId = loserId
\* or with an id that is not of the current pair throws 'Invalid comparison
\* result' and changes neither the tournament nor the battle scores nor the
\* store.
C3_InvalidRejected ==
  [][ \A w \in AnyIds, l \in AnyIds, ok \in WriteOutcomes :
        ( /\ op' = "recordComparison"
          /\ getCurrentPair(pairs, currentPairIndex) # Null
          /\ \/ w = l
             \/ w \notin PairIds(getCurrentPair(pairs, currentPairIndex))
             \/ l \notin PairIds(getCurrentPair(pairs, currentPairIndex))
          /\ recordComparison(w, l, ok) )
        => /\ err' = "Invalid comparison result"
           /\ UNCHANGED <<tournamentState, battleScore, store>>
           /\ ~wrote'
    ]_vars

\* C3: a call was rejected in the middle of a tournament
C3_Witness ==
  /\ op = "recordComparison"
  /\ err = "Invalid comparison result"
  /\ currentPairIndex = 1
  /\ Len(pairs) = 3

\* C4: once the tournament is complete, recordComparison throws 'No active
\* comparison' whatever the ids, and changes neither the tournament nor the
\* battle scores nor the store.
C4_NoActiveComparison ==
  [][ \A w \in AnyIds, l \in AnyIds, ok \in WriteOutcomes :
        (op' = "recordComparison" /\ isComplete /\ recordComparison(w, l, ok))
        => /\ err' = "No active comparison"
           /\ UNCHANGED <<tournamentState, battleScore, store>>
           /\ ~wrote'
    ]_vars

\* C4: a call after the completion of a tournament over three items
C4_Witness ==
  /\ op = "recordComparison"
  /\ err = "No active comparison"
  /\ isComplete
  /\ Len(tasks) = 3

\* C5: a call writes the ranking record to the store exactly if it is the call
\* in which isComplete turns from false to true.
C5_SavedOnceAtCompletion ==
  [][ wrote' <=> (~isComplete /\ isComplete') ]_vars

\* C5: a rejected call after the one write of a completed tournament
C5_Witness ==
  /\ isComplete
  /\ store.kind = "results"
  /\ store.taskIds = tasks
  /\ Len(tasks) = 3
  /\ err = "No active comparison"

\* C6 as stated: no tournament instance exists over fewer than 2 or more
\* than 20 items.
C6_NoTournamentOutsideLimits ==
  exists => (Len(tasks) >= 2 /\ Len(tasks) <= 20)

\* C6 as amended: validateTasks throws 'At least 2 tasks are required for
\* battle mode' for a list of fewer than 2 items and 'Maximum 20 tasks allowed
\* in battle mode' for a list of more than 20, and for no other list; the
\* constructor checks nothing: over 0 or 1 items it returns an instance with
\* no pairs that is not complete.
C6_ValidateRejectsConstructorAccepts ==
  [][ /\ \A input \in ValidateInputs \ {NotArray} :
           (op' = "validateTasks" /\ ValidateTasks(input)) =>
             /\ (err' = "At least 2 tasks are required for battle mode")
                  <=> (Len(input.items) < 2)
             /\ (err' = "Maximum 20 tasks allowed in battle mode")
                  <=> (Len(input.items) > 20)
      /\ op' = "new" =>
           /\ err' = ""
           /\ exists'
           /\ Len(tasks') < 2 =>
                /\ pairs' = <<>>
                /\ getCurrentPair(pairs', currentPairIndex') = Null
                /\ ~isComplete'
    ]_vars

\* C6: an instance over one item exists, and a list of 21 was turned down
C6_Witness ==
  /\ exists
  /\ Len(tasks) = 1
  /\ op = "validateTasks"
  /\ err = "Maximum 20 tasks allowed in battle mode"

\* the comparison of a and b was recorded with a the winner
Beat(a, b) ==
  /\ getComparisonKey(a, b) \in DOMAIN comparisons
  /\ comparisons[getComparisonKey(a, b)].winner = a
  /\ comparisons[getComparisonKey(a, b)].loser = b

RankedIds == [k \in 1..Len(tasks) |-> getRankings(tasks, scores)[k].task]
RankOf(id) == CHOOSE k \in 1..Len(tasks) : RankedIds[k] = id

\* C7: in a completed tournament an item with more wins has a higher final
\* score and comes earlier in getRankings(); over three items where a beat b,
\* a beat c and b beat c, getRankings() is [a, b, c] with (wins, losses)
\* (2,0), (1,1), (0,2) and strictly decreasing scores.
C7_MoreWinsRankHigher ==
  (exists /\ isComplete) =>
    LET r == getRankings(tasks, scores) IN
    /\ \A a \in IdsOf(tasks), b \in IdsOf(tasks) :
         scores[a].wins > scores[b].wins =>
           /\ scores[a].score > scores[b].score
           /\ RankOf(a) < RankOf(b)
    /\ \A a \in IdsOf(tasks), b \in IdsOf(tasks), c \in IdsOf(tasks) :
         (Len(tasks) = 3 /\ Beat(a, b) /\ Beat(a, c) /\ Beat(b, c)) =>
           /\ RankedIds = <<a, b, c>>
           /\ <<r[1].wins, r[1].losses>> = <<2, 0>>
           /\ <<r[2].wins, r[2].losses>> = <<1, 1>>
           /\ <<r[3].wins, r[3].losses>> = <<0, 2>>
           /\ r[1].score > r[2].score
           /\ r[2].score > r[3].score

\* C7: task 2 beat 3 and 1, task 3 beat 1: the ranking is not the task order
C7_Witness ==
  /\ isComplete
  /\ Len(tasks) = 3
  /\ Beat(2, 3) /\ Beat(2, 1) /\ Beat(3, 1)
  /\ RankedIds = <<2, 3, 1>>

\* round(100 * wins / comparisons) + 2 * wins, 0 without comparisons
ClaimedScore(s) ==
  IF s.comparisons = 0 THEN 0
  ELSE MathRound(100 * s.wins, s.comparisons) + 2 * s.wins

C9_ExpiredNeverReturned ==
  [][ /\ op' = "loadBattleResults" =>
           /\ ret' # Null => now' - ret'.timestamp <= oneWeek
           /\ (store.kind = "results" /\ now - store.timestamp > oneWeek) =>
                /\ ret' = Null
                /\ removed'
                /\ store' = Absent
           /\ store.kind = "absent" => (ret' = Null /\ store' = Absent)
      /\ (store.kind = "absent" /\ store'.kind # "absent") =>
           /\ wrote'
           /\ ~isComplete /\ isComplete'
    ]_vars

\* C9: a load found the record of day 0 on day 8 and removed it
C9_Witness ==
  /\ op = "loadBattleResults"
  /\ removed
  /\ ret = Null
  /\ store = Absent
  /\ now = oneWeek + 1

\* C10 as stated: a load that finds unparseable content returns null and
\* clears the slot.
C10_MalformedCleared ==
  [][ (op' = "loadBattleResults" /\ store.kind = "unparseable") =>
        (ret' = Null /\ store'.kind = "absent") ]_vars

\* C10 as amended: a load that finds unparseable content returns null, as
\* for an absent record, and leaves the content in the slot; it stays there
\* until a completing tournament overwrites it or clearBattleResults()
\* removes it.
C10_MalformedKept ==
  [][ /\ (op' = "loadBattleResults" /\ store.kind \in {"unparseable", "absent"}) =>
           /\ ret' = Null
           /\ store' = store
           /\ ~removed'
      /\ (store.kind = "unparseable" /\ store' # store) =>
           (wrote' \/ op' = "clearBattleResults")
    ]_vars

\* C10: a load has returned null and the unparseable content is still there
C10_Witness ==
  /\ op = "loadBattleResults"
  /\ ret = Null
  /\ err = ""
  /\ store = Unparseable

\* C11: when the write of the completing call fails, the call still returns
\* normally with isComplete = true and the final scores computed, and the
\* slot keeps the content it had, so that a later load yields what it
\* yielded before.
C11_WriteFailureSwallowed ==
  [][ \A w \in AnyIds, l \in AnyIds :
        ( /\ op' = "recordComparison"
          /\ ~isComplete /\ isComplete'
          /\ recordComparison(w, l, FALSE) )
        => /\ err' = ""
           /\ ret'.isComplete
           /\ \A id \in IdsOf(tasks') :
                /\ scores'[id].score = ClaimedScore(scores'[id])
                /\ battleScore'[id] = scores'[id].score
           /\ wrote'
           /\ store' = store
           /\ loadBattleResults(store', now') = loadBattleResults(store, now)
    ]_vars

\* C11: a tournament over three items is complete, its write was attempted,
\* and the slot still holds the record of the tournament of day 0
C11_Witness ==
  /\ op = "recordComparison"
  /\ err = ""
  /\ isComplete
  /\ wrote
  /\ Len(tasks) = 3
  /\ store = LeftoverResults

\* the ids of a rankings list of the store, in order
StoredIds(rankings) == [k \in 1..Len(rankings) |-> rankings[k].task.id]

\* C12: after a completing call whose write succeeded, a load on any day up
\* to 7 days later returns a record whose rankings hold the ids of
\* getRankings() in the same order with the same score, wins and losses,
\* sorted by descending score; and a load that returns a record returns the
\* one the slot holds.
C12_RoundTrip ==
  [][ /\ \A w \in AnyIds, l \in AnyIds :
           ( /\ op' = "recordComparison"
             /\ ~isComplete /\ isComplete'
             /\ recordComparison(w, l, TRUE) )
           => \A t \in now'..(now' + oneWeek) :
                LET r == loadBattleResults(store', t)[1]
                    g == getRankings(tasks', scores')
                IN /\ r # Null
                   /\ StoredIds(r.rankings) = [k \in 1..Len(g) |-> g[k].task]
                   /\ \A k \in 1..Len(g) :
                        /\ r.rankings[k].score = g[k].score
                        /\ r.rankings[k].wins = g[k].wins
                        /\ r.rankings[k].losses = g[k].losses
                   /\ \A k \in 1..(Len(g) - 1) :
                        r.rankings[k].score >= r.rankings[k + 1].score
      /\ (op' = "loadBattleResults" /\ ret' # Null) =>
           /\ ret' = store
           /\ store' = store
    ]_vars

\* C12: a load has returned the record of the completed tournament over three
\* items, whose ranking is not the task order
C12_Witness ==
  /\ op = "loadBattleResults"
  /\ ret # Null
  /\ isComplete
  /\ Len(tasks) = 3
  /\ ret.taskIds = tasks
  /\ StoredIds(ret.rankings) = RankedIds
  /\ RankedIds = <<3, 1, 2>>

\* ------------------------------------------------ the order of the matrix
TaskOf(id) == matrix[IndexOf(matrix, id)]
\* getPriorityScore() of the task id, in tenths
ScoreOf(id) == getPriorityScore(TaskOf(id), battleScore, now)
\* the ids a ranking record ranks, and the place of one of them
RankedIn(slot) == {slot.rankings[k].task.id : k \in 1..Len(slot.rankings)}
PlaceIn(slot, id) == CHOOSE k \in 1..Len(slot.rankings) : slot.rankings[k].task.id = id
\* the slot holds a ranking record that is not older than 7 days
ValidRecord(slot, t) == slot.kind = "results" /\ t - slot.timestamp <= oneWeek
\* b holds the elements of a in some order (ids are distinct)
SameItems(a, b) ==
  /\ Len(a) = Len(b)
  /\ {a[k] : k \in 1..Len(a)} = {b[k] : k \in 1..Len(b)}
PlaceOf(list, id) == CHOOSE k \in 1..Len(list) : list[k] = id
\* the elements of list that are in ids, in the order of list
Only(list, ids) == SelectSeq(list, LAMBDA id : id \in ids)
\* the ids of sortTasksByPriority(items, 1) of the tasks m with a healthy store
SortedQ1(m, sel) ==
  IdList(sortTasksByPriority(Selection(m, sel), 1, store, now, TRUE, battleScore).sorted)

\* C13: sortTasksByPriority(items, 1) with a ranking record of at most 7 days
\* in the store returns all the items, every item the record ranks before
\* every item it does not rank, and the ranked items in the order of the
\* record, whatever their priority scores.
C13_RankedFirstInRankOrder ==
  [][ \A sel \in SortSelections :
        ( /\ op' = "sortTasksByPriority"
          /\ ValidRecord(store, now)
          /\ SortTasksByPriority(sel, 1, TRUE) )
        => /\ err' = ""
           /\ SameItems(ret'.items, ret'.ids)
           /\ \A i \in 1..Len(ret'.ids), j \in 1..Len(ret'.ids) :
                LET a == ret'.ids[i]
                    b == ret'.ids[j]
                IN /\ (a \in RankedIn(store) /\ b \notin RankedIn(store)) => i < j
                   /\ ( /\ a \in RankedIn(store) /\ b \in RankedIn(store)
                        /\ PlaceIn(store, a) < PlaceIn(store, b) ) => i < j
    ]_vars

\* C13: the record ranks 1 before 2; the tasks came as 3, 2, 1, with 3 of the
\* highest and 1 of the lowest priority score, and are returned as 1, 2, 3
C13_Witness ==
  /\ op = "sortTasksByPriority"
  /\ err = ""
  /\ ret.quadrant = 1
  /\ store = LeftoverResults
  /\ ret.items = <<3, 2, 1>>
  /\ ret.ids = <<1, 2, 3>>
  /\ ScoreOf(1) < ScoreOf(2)
  /\ ScoreOf(2) < ScoreOf(3)

\* C14: in the same call the items the record does not rank come after all
\* ranked items and, among themselves, by descending getPriorityScore(); and
\* adding a task changes neither the order of the ranked tasks among
\* themselves nor their place before the unranked ones.
C14_UnrankedAfterByScore ==
  [][ /\ \A sel \in SortSelections :
           ( /\ op' = "sortTasksByPriority"
             /\ ValidRecord(store, now)
             /\ SortTasksByPriority(sel, 1, TRUE) )
           => \A i \in 1..Len(ret'.ids), j \in 1..Len(ret'.ids) :
                LET a == ret'.ids[i]
                    b == ret'.ids[j]
                IN /\ (a \notin RankedIn(store) /\ b \in RankedIn(store)) => j < i
                   /\ (a \notin RankedIn(store) /\ b \notin RankedIn(store) /\ i < j)
                        => ScoreOf(a) >= ScoreOf(b)
      /\ (op' = "addTask" /\ err' = "" /\ ret'.id \notin IdsIn(matrix)
          /\ ValidRecord(store, now)) =>
           \A sel \in SortSelections :
             LET before == SortedQ1(matrix, sel)
                 after == SortedQ1(matrix', sel)
                 ranked == RankedIn(store) \cap IdsIn(matrix)
             IN /\ Only(after, ranked) = Only(before, ranked)
                /\ Only(after, IdsIn(matrix)) = before
    ]_vars

\* C14: the record ranks 2 alone of the tasks; task 3 was added after it was
\* written (it is the one task of quadrant 2); the tasks are returned with 2
\* first, which has the lowest score, then the unranked 1 and 3 by
\* descending score
C14_Witness ==
  /\ op = "sortTasksByPriority"
  /\ err = ""
  /\ ret.quadrant = 1
  /\ store = PartialResults
  /\ edits = 1
  /\ ret.items = <<1, 2, 3>>
  /\ TaskOf(3).quadrant = 2
  /\ ret.ids = <<2, 1, 3>>
  /\ ScoreOf(2) < ScoreOf(3)
  /\ ScoreOf(3) < ScoreOf(1)

\* no ranking record: nothing, unparseable content, a record older than 7
\* days, or an object without rankings field
NoValidRecord(slot, t) ==
  \/ slot.kind \in {"absent", "unparseable", "noRankings"}
  \/ (slot.kind = "results" /\ t - slot.timestamp > oneWeek)

\* C15: sortTasksByPriority(items, q) with q other than 1, or with q = 1 and
\* no valid ranking record in the store, returns all the items by descending
\* getPriorityScore(), items of equal score in their input order.
C15_ByPriorityScoreOtherwise ==
  [][ \A sel \in SortSelections, q \in SortQuadrants :
        ( /\ op' = "sortTasksByPriority"
          /\ (q # 1 \/ NoValidRecord(store, now))
          /\ SortTasksByPriority(sel, q, TRUE) )
        => /\ err' = ""
           /\ SameItems(ret'.items, ret'.ids)
           /\ \A i \in 1..Len(ret'.ids), j \in 1..Len(ret'.ids) :
                LET a == ret'.ids[i]
                    b == ret'.ids[j]
                IN i < j =>
                     /\ ScoreOf(a) >= ScoreOf(b)
                     /\ ScoreOf(a) = ScoreOf(b) =>
                          PlaceOf(ret'.items, a) < PlaceOf(ret'.items, b)
    ]_vars

\* C15: a sort for quadrant 1 found the record of day 0 expired and removed
\* it; tasks 3 and 2 have the same score and keep their order, before task 1
C15_Witness ==
  /\ op = "sortTasksByPriority"
  /\ err = ""
  /\ ret.quadrant = 1
  /\ removed
  /\ store = Absent
  /\ ret.items = <<3, 2, 1>>
  /\ ret.ids = <<3, 2, 1>>
  /\ ScoreOf(3) = ScoreOf(2)
  /\ ScoreOf(2) > ScoreOf(1)

\* the order sortTasksByPriority gives all tasks in the context of quadrant q
OrderOf(m, q, slot, bs) ==
  IdList(sortTasksByPriority(getAllTasks(m), q, slot, now, TRUE, bs).sorted)

\* C16 as stated: in a context other than quadrant 1 the order is the same
\* whether or not a tournament has completed: the step that completes a
\* tournament leaves it as it was.
C16_TournamentIgnoredOutsideQuadrant1 ==
  [][ (~isComplete /\ isComplete') =>
        \A q \in {0, 2, 3, 4} :
          OrderOf(matrix', q, store', battleScore') = OrderOf(matrix, q, store, battleScore)
    ]_vars

\* C16 as amended: in a context other than quadrant 1 sortTasksByPriority
\* does not read the ranking record: it returns the same order whatever the
\* slot holds, leaves the slot alone, and the order is by descending
\* getPriorityScore(), which counts the battleScore a completed tournament
\* wrote on its tasks.
C16_RecordIgnoredOutsideQuadrant1 ==
  [][ \A q \in {0, 2} :
        (op' = "sortTasksByPriority" /\ SortTasksByPriority(0, q, TRUE))
        => /\ err' = ""
           /\ store' = store
           /\ ~removed'
           /\ \A slot \in SlotContents :
                OrderOf(matrix, q, slot, battleScore) = ret'.ids
           /\ \A i \in 1..Len(ret'.ids), j \in 1..Len(ret'.ids) :
                i < j => ScoreOf(ret'.ids[i]) >= ScoreOf(ret'.ids[j])
    ]_vars

\* C16: tasks 1 and 2 were created on the same day with the same traits; a
\* tournament that 2 won has completed, and the order outside quadrant 1 is
\* 2, 1, 3
C16_Witness ==
  /\ op = "sortTasksByPriority"
  /\ ret.quadrant # 1
  /\ isComplete
  /\ edits = 0
  /\ store.kind = "results"
  /\ ret.items = <<1, 2, 3>>
  /\ ret.ids = <<2, 1, 3>>

\* the four-way mapping of the traits
FourWay(important, urgent) ==
  IF important /\ urgent THEN 1
  ELSE IF important THEN 2
  ELSE IF urgent THEN 3
  ELSE 4

\* C17: every task's quadrant is one of 1, 2, 3, 4 and is the four-way
\* mapping of its traits.
C17_QuadrantOfTraits ==
  \A i \in 1..Len(matrix) :
    /\ matrix[i].quadrant \in 1..4
    /\ matrix[i].quadrant = FourWay(Truthy(matrix[i].importance), Truthy(matrix[i].urgency))

\* C18: a rejected updateTask leaves the tasks, their battle scores and the
\* storage as they were and emits nothing.
C18_RejectedUpdateChangesNothing ==
  [][ (op' = "updateTask" /\ err' # "") =>
        /\ matrix' = matrix
        /\ battleScore' = battleScore
        /\ ~saved'
        /\ emitted' = ""
    ]_vars

\* C19: whatever the ranking slot holds and whether or not it can be read,
\* sortTasksByPriority(items, 1) throws nothing and returns all the items.
C19_SortNeverThrows ==
  [][ \A sel \in SortSelections, readOk \in BOOLEAN :
        (op' = "sortTasksByPriority" /\ SortTasksByPriority(sel, 1, readOk))
        => /\ err' = ""
           /\ SameItems(ret'.items, ret'.ids)
    ]_vars

\* C20 as stated: the battleScore of a task changes in no step but the one
\* that completes a tournament the task is in.
C20_BattleScoreOnlyAtCompletion ==
  [][ \A id \in IdsIn(matrix) \cap IdsIn(matrix') :
        battleScore'[id] # battleScore[id] =>
          /\ ~isComplete /\ isComplete'
          /\ id \in IdsOf(tasks)
    ]_vars

\* C20 as amended: the battleScore of a task changes only in the step that
\* completes a tournament the task is in, in an updateTask whose data has a
\* battleScore key (accepted or rejected), and in an importData or addTask
\* that replaces the task by one of the same id; no other update, no
\* quadrant move, no recordComparison that is rejected or does not complete,
\* and no reset changes it.
C20_BattleScoreChanges ==
  [][ \A id \in IdsIn(matrix) \cap IdsIn(matrix') :
        battleScore'[id] # battleScore[id] =>
          \/ /\ op' = "recordComparison"
             /\ err' = ""
             /\ ~isComplete /\ isComplete'
             /\ id \in IdsOf(tasks)
          \/ /\ op' = "updateTask"
             /\ \E updateData \in UpdateInputs :
                  /\ "battleScore" \in updateData.keys
                  /\ UpdateTask(id, updateData)
          \/ /\ op' = "importData"
             /\ err' = ""
          \/ /\ op' = "addTask"
             /\ err' = ""
             /\ ret'.id = id
    ]_vars

\* C20: a tournament gave task 2 its score, and then a rejected update with
\* a battleScore key set the score of task 1
C20_Witness ==
  /\ op = "updateTask"
  /\ err = "Invalid task update"
  /\ isComplete
  /\ battleScore[1] = 5
  /\ battleScore[2] = 102

\* --------------------------------------------------- the loop of a caller
\* what getCurrentPair() returns in the current state
CurrentPair == getCurrentPair(pairs, currentPairIndex)
\* comparisons still to record
Remaining == Len(pairs) - currentPairIndex

\* C21 as stated: for every tournament the constructor has accepted,
\* getCurrentPair() returns null exactly when the tournament is complete.
C21_NullExactlyWhenComplete ==
  exists => ((CurrentPair = Null) <=> isComplete)

\* C21 as amended: for a tournament over at least two tasks getCurrentPair()
\* returns null exactly when the tournament is complete and otherwise the
\* pair at the cursor, an answer of the current pair is accepted, and every
\* accepted answer leaves one comparison less, with completion when none is
\* left: the loop of a caller ends.  A tournament over fewer than two tasks
\* has no pair: getCurrentPair() returns null and isComplete stays false.
C21_NullExactlyWhenCompleteFromTwoTasks ==
  /\ [](exists /\ Len(tasks) >= MinBattleTasks =>
          /\ (CurrentPair = Null) <=> isComplete
          /\ ~isComplete =>
               /\ Remaining > 0
               /\ CurrentPair = pairs[currentPairIndex + 1]
               /\ ValidComparison(CurrentPair, CurrentPair.taskA, CurrentPair.taskB))
  /\ [](exists /\ Len(tasks) < MinBattleTasks =>
          CurrentPair = Null /\ ~isComplete)
  /\ [][ (op' = "recordComparison" /\ err' = "") =>
           /\ Remaining' = Remaining - 1
           /\ isComplete' <=> (Remaining' = 0)
       ]_vars

\* C21: the third answer has completed a tournament over three tasks, and
\* there is no current pair any more
C21_Witness ==
  /\ op = "recordComparison"
  /\ err = ""
  /\ Len(tasks) = 3
  /\ currentPairIndex = 3
  /\ isComplete
  /\ CurrentPair = Null
  /\ ret.currentPair = Null

\* C22: reset() from any state gives cursor 0, isComplete false, no recorded
\* outcome, wins, losses, comparisons and score 0 for every task, and a pair
\* sequence that holds every pair of tasks once, none marked completed; and
\* a run is complete exactly after as many accepted answers as there are
\* pairs.
C22_ResetYieldsInitialState ==
  /\ [][ op' = "reset" =>
           /\ currentPairIndex' = 0
           /\ ~isComplete'
           /\ DOMAIN comparisons' = {}
           /\ tasks' = tasks
           /\ DOMAIN scores' = IdsOf(tasks)
           /\ \A id \in IdsOf(tasks) :
                /\ scores'[id].wins = 0
                /\ scores'[id].losses = 0
                /\ scores'[id].comparisons = 0
                /\ scores'[id].score = 0
           /\ Len(pairs') = NumPairs(Len(tasks))
           /\ \A k \in 1..Len(pairs') : ~pairs'[k].completed
           /\ \A a \in IdsOf(tasks), b \in IdsOf(tasks) :
                a < b => Cardinality(PositionsOf(pairs', a, b)) = 1
       ]_vars
  /\ [][ (op' = "recordComparison" /\ err' = "") =>
           (isComplete' <=> currentPairIndex' = NumPairs(Len(tasks)))
       ]_vars

\* C22: a tournament over three tasks was completed on this day, its record
\* is in the slot, and it has been reset
C22_Witness ==
  /\ op = "reset"
  /\ runs = 2
  /\ Len(tasks) = 3
  /\ store.kind = "results"
  /\ store.timestamp >= oneWeek
  /\ store.taskIds = tasks
  /\ currentPairIndex = 0
  /\ ~isComplete
  /\ battleScore # [id \in TaskIds |-> 0]

\* ------------------------------------------------- The One and Up Next
\* the rankings getRankings() gives in the current state
Rankings == getRankings(tasks, scores)
\* the first k elements of s, all of s when it is shorter
Prefix(s, k) == [i \in 1..(IF k < Len(s) THEN k ELSE Len(s)) |-> s[i]]

\* C23: before completion getTheOne() returns null and getUpNext(k) an empty
\* list; after completion getTheOne() is the first entry of getRankings()
\* and getUpNext(k) the entries at the positions 2 to k + 1 of it, fewer when
\* the ranking is shorter, and never The One.
C23_TheOneAndUpNext ==
  [][ /\ (op' = "getTheOne" /\ ~isComplete) => ret' = Null
      /\ (op' = "getTheOne" /\ isComplete) =>
           /\ ret' # Null
           /\ ret'.entry = Rankings[1]
      /\ (op' = "getUpNext" /\ ~isComplete) => ret'.list = <<>>
      /\ (op' = "getUpNext" /\ isComplete) =>
           /\ Len(ret'.list) <= ret'.count
           /\ <<Rankings[1]>> \o ret'.list = Prefix(Rankings, ret'.count + 1)
           /\ \A i \in 1..Len(ret'.list) : ret'.list[i].task # Rankings[1].task
    ]_vars

\* C23: after a tournament over three tasks getUpNext(3) has returned the
\* two entries behind The One, which is task 3
C23_Witness ==
  /\ op = "getUpNext"
  /\ isComplete
  /\ Len(tasks) = 3
  /\ ret.count = 3
  /\ Len(ret.list) = 2
  /\ Rankings[1].task = 3
  /\ ret.list = <<Rankings[2], Rankings[3]>>

\* C26: getRankings() called before completion does not rank a task below
\* another that has fewer wins over the same number of comparisons.
C26_InterimStandings ==
  [][ (op' = "getRankings" /\ ~isComplete) =>
        \A i \in 1..Len(ret'.list), j \in 1..Len(ret'.list) :
          LET a == ret'.list[i]
              b == ret'.list[j]
          IN (i < j /\ a.wins + a.losses = b.wins + b.losses) => a.wins >= b.wins
    ]_vars

\* the names of the read operations
ReadOperations ==
  {"getCurrentPair", "getRankings", "getTheOne", "getUpNext", "getProgress",
   "getStatistics", "hasComparison", "getComparison"}

\* C27: getCurrentPair, getRankings, getTheOne, getUpNext, getProgress,
\* getStatistics, hasComparison and getComparison leave the cursor, the
\* tallies and scores, the recorded outcomes, the pairs and their flags,
\* isComplete, the battleScore of every task and the ranking slot as they
\* were, and call neither setItem nor removeItem.
C27_ReadsChangeNothing ==
  [][ op' \in ReadOperations =>
        /\ currentPairIndex' = currentPairIndex
        /\ scores' = scores
        /\ comparisons' = comparisons
        /\ pairs' = pairs
        /\ isComplete' = isComplete
        /\ tasks' = tasks
        /\ battleScore' = battleScore
        /\ store' = store
        /\ ~wrote'
        /\ ~removed'
    ]_vars

\* C27: getRankings() was called in the middle of a tournament over three
\* tasks, after two answers
C27_Witness ==
  /\ op = "getRankings"
  /\ Len(tasks) = 3
  /\ currentPairIndex = 2
  /\ ~isComplete
  /\ Len(ret.list) = 3
  /\ \E i \in 1..3 : ret.list[i].wins = 2

\* C24: when a tournament completes, the battleScore of every task of it is
\* greater than 0.
C24_BattleScorePositive ==
  [][ (~isComplete /\ isComplete') =>
        \A id \in IdsOf(tasks) : battleScore'[id] > 0
    ]_vars

\* the sum of the wins, or of the losses, of the tasks ids
RECURSIVE SumOver(_, _)
SumOver(ids, field) ==
  IF ids = {} THEN 0
  ELSE LET id == CHOOSE x \in ids : TRUE
       IN (IF field = "wins" THEN scores[id].wins ELSE scores[id].losses)
          + SumOver(ids \ {id}, field)

C25_MoveToQuadrant ==
  [][ \A taskId \in TaskIds, q \in 1..4 :
        ( /\ op' = "moveTaskToQuadrant"
          /\ HasTask(matrix, taskId)
          /\ MoveTaskToQuadrant(taskId, q) )
        => /\ err' = ""
           /\ matrix'[IndexOf(matrix', taskId)].quadrant = q
           /\ ret'.oldQuadrant = matrix[IndexOf(matrix, taskId)].quadrant
           /\ ret'.newQuadrant = q
    ]_vars

\* ------------------------------------------------ The One of the matrix
\* the id the record in the slot ranks first
TopRanked(slot) == slot.rankings[1].task.id

\* a step that completes a tournament and writes its record
CompletesAndSaves ==
  /\ op' = "recordComparison"
  /\ ~isComplete /\ isComplete'
  /\ \E w \in TaskIds, l \in TaskIds : recordComparison(w, l, TRUE)

\* a step in which a load finds the record expired and removes it
RemovesExpired ==
  /\ op' \in {"loadBattleResults", "sortTasksByPriority"}
  /\ Expired(store, now)
  /\ store' = Absent

\* the record a completed tournament has written has The One of the
\* tournament first
RecordHoldsTheOne ==
  CompletesAndSaves =>
    /\ store'.kind = "results"
    /\ store'.timestamp = now
    /\ TopRanked(store') = getTheOne(isComplete', tasks', scores').entry.task

\* sortTasksByPriority(items, 1) with a record of at most 7 days whose first
\* task is among the items returns that task first
TopRankedFirst ==
  \A sel \in SortSelections :
    ( /\ op' = "sortTasksByPriority"
      /\ ValidRecord(store, now)
      /\ TopRanked(store) \in IdsIn(Selection(matrix, sel))
      /\ SortTasksByPriority(sel, 1, TRUE) )
    => /\ err' = ""
       /\ ret'.ids[1] = TopRanked(store)
       /\ store' = store

====
